---- MODULE Spec2Model ----
(***************************************************************************)
(* The room/round state machine of time-auction-server (latest revision of *)
(* index.js, src/unnamed/part_000 lines 749-1431), for one room.           *)
(*                                                                         *)
(* JavaScript runs every handler and timer callback to completion, so each *)
(* handler is one action.  The functions the handlers call are operators   *)
(* on a "world" record w = [exists, game, timeouts, out, resolved]:        *)
(*   exists    games[roomId] is defined                                    *)
(*   game      the room object                                             *)
(*   timeouts  the pending setTimeout(() => startNewRound(roomId), d)      *)
(*   out       what the running handler has emitted so far                 *)
(*   resolved  the contestants of the round endRoundOnServer resolved in   *)
(*             this step, each as it was on entry and as it is on return   *)
(*   orphans   the intervals left running when their room was deleted     *)
(*                                                                         *)
(* An interval whose handle is overwritten while it is live (setInterval   *)
(* assigned to a handle that was not cleared) can no longer be cancelled   *)
(* and ticks on: game.leakedRoundTimers counts these bidding intervals by  *)
(* the seconds until their next tick.                                      *)
(*                                                                         *)
(* Time: timers are counted in whole seconds.  A timer armed with delay d  *)
(* carries the counter d; SecondPasses lowers every counter by one and is  *)
(* only possible while no counter is 0; a timer whose counter is 0 fires   *)
(* before the next second passes.  So a timer armed between second k and   *)
(* k+1 fires between second k+d and k+d+1, as in the program, and timers   *)
(* due within the same second fire in either order.                        *)
(*                                                                         *)
(* Environment: one connection is a member of at most one room at a time   *)
(* (spec section 6), so createRoom and joinRoom come only from connections *)
(* that hold no roomId.                                                    *)
(***************************************************************************)
EXTENDS Integers, Sequences, FiniteSets, TLC

\* ---- bounds of the model ------------------------------------------------
MaxSockets == 2
MaxPending == 2
MaxRoundsInput == 2
MaxRoundSeconds == 2
LatePlayers == 3
LateBudget == 2
LateRoundsLeft == 2
LobbySockets == 5
MaxStraySeconds == 5
MaxLeaked == 1
RichBudget == 6

\* ---- program constants ---------------------------------------------------
MinInitialTime == 10
MaxInitialTime == 600
MinMaxRounds == 1
MaxMaxRounds == 50
MaxPlayers == 4
CountdownSeconds == 5
IntervalPeriod == 1
NoContestDelay == 2
RoundEndDelay == 3
InterruptDelay == 1

greatest3(a, b, c) == CHOOSE m \in {a, b, c} : m >= a /\ m >= b /\ m >= c

Sockets == 1..greatest3(MaxSockets, LatePlayers, LobbySockets)
RoomId == "R"

\* inputs of createRoom: the two edges of each validated range
InitialTimeInputs == {MinInitialTime - 1, MinInitialTime, MaxInitialTime + 1}
MaxRoundsInputs == (0..MaxRoundsInput) \cup {MaxMaxRounds + 1}
\* the four edges of each validated range, for rooms in which no timer fires
EdgeInitialTimes ==
    {MinInitialTime - 1, MinInitialTime, MaxInitialTime, MaxInitialTime + 1}
EdgeMaxRounds == {MinMaxRounds - 1, MinMaxRounds, MaxMaxRounds, MaxMaxRounds + 1}

\* the playerName strings the connections send: names are compared with ===
\* (line 1202), so two names that differ in case only are two names
Names == <<"ann", "Ann", "bob", "Bob", "cy", "Cy", "di", "Di">>

nameOf(s) == Names[s]

\* a connection asks for its own name or for the name of connection 1
NameInputs(s) == {nameOf(s), nameOf(1)}

\* ---- data ------------------------------------------------------------------
\* time and roundHoldDuration are numbers of seconds: the field holds the
\* whole seconds, and timeHalf or roundHoldHalf says that the number has
\* half a second more (createRoom takes any number from 10 to 600 as
\* initialTime, and a forced release copies time to roundHoldDuration)
newPlayer(s, playerName, t) ==
    [id |-> s, name |-> playerName, time |-> t, timeHalf |-> FALSE, tokens |-> 0,
     isHoldingButton |-> FALSE, hasOptedOut |-> FALSE,
     roundHoldDuration |-> 0, roundHoldHalf |-> FALSE, isEliminated |-> FALSE]

\* a number of seconds, counted in half seconds
halves(whole, half) == 2 * whole + (IF half THEN 1 ELSE 0)

\* p.time and p.roundHoldDuration, in half seconds
timeOf(p) == halves(p.time, p.timeHalf)

roundHoldDurationOf(p) == halves(p.roundHoldDuration, p.roundHoldHalf)

\* game.maxRounds, in halves
maxRoundsOf(game) == halves(game.maxRounds, game.maxRoundsHalf)

\* an interval handle is {} (null) or {k}: live, due after k more seconds;
\* maxRounds is a number from 1 to 50: the field holds its whole part and
\* maxRoundsHalf says that it has a half more
newGame(p, rounds) ==
    [id |-> RoomId, players |-> <<p>>, status |-> "waiting", currentRound |-> 0,
     maxRounds |-> rounds, maxRoundsHalf |-> FALSE,
     preRoundCountdown |-> 0, preRoundIntervalId |-> {},
     roundElapsedTime |-> 0, roundTimerIntervalId |-> {},
     activePlayersInRound |-> <<>>, leakedInterval |-> FALSE,
     leakedRoundTimers |-> [k \in 0..IntervalPeriod |-> 0]]

NoGame == [id |-> "none"]

\* the number of bidding intervals that tick without a handle
Leaked(g) == g.leakedRoundTimers[0] + g.leakedRoundTimers[1]

\* the interval behind handle h, if live, goes on without a handle
leak(counts, h) == [k \in DOMAIN counts |-> counts[k] + (IF k \in h THEN 1 ELSE 0)]

NoTimeouts == [d \in 0..RoundEndDelay |-> 0]

NoOut == [callback |-> "none", messages |-> {}, roundWinner |-> <<>>, gameOver |-> <<>>]

Pending(t) == t[0] + t[1] + t[2] + t[3]

VARIABLES games, sockets, roomIdTaken, timeouts, emitted, resolved, orphans

vars == <<games, sockets, roomIdTaken, timeouts, emitted, resolved, orphans>>

\* the world a handler starts in: nothing emitted yet
World ==
    [exists |-> games # {},
     game |-> IF games = {} THEN NoGame ELSE CHOOSE g \in games : g.id = RoomId,
     timeouts |-> timeouts, out |-> NoOut, resolved |-> <<>>, orphans |-> orphans]

\* activePlayersInRound is written before status becomes 'inRound' (line 943)
\* and read only by checkAllReleasedOnServer under status = 'inRound' (line
\* 994) and by endRoundOnServer, which only checkAllReleasedOnServer calls
\* (line 1006).  Outside 'inRound' its stale content can never be read again
\* and is kept out of the state.
stored(game) ==
    IF game.status = "inRound" THEN game ELSE [game EXCEPT !.activePlayersInRound = <<>>]

\* the handler's result written back
Commit(w) ==
    /\ games' = IF w.exists THEN {stored(w.game)} ELSE {}
    /\ timeouts' = w.timeouts
    /\ emitted' = w.out
    /\ resolved' = w.resolved
    /\ orphans' = w.orphans
    /\ Pending(w.timeouts) <= MaxPending
    /\ w.exists => Leaked(w.game) <= MaxLeaked

\* ---- helpers ------------------------------------------------------------------
Ids(ps) == {ps[i].id : i \in DOMAIN ps}

\* Array.prototype.find by id: the first match, <<>> when there is none
find(ps, s) ==
    LET hits == {i \in DOMAIN ps : ps[i].id = s}
    IN IF hits = {} THEN <<>>
       ELSE <<ps[CHOOSE i \in hits : \A j \in hits : i <= j]>>

alivePlayers(ps) == SelectSeq(ps, LAMBDA p : ~p.isEliminated)

allHolding(ps) == \A i \in DOMAIN ps : ps[i].isHoldingButton

\* activePlayersInRound holds references to player objects.  A reference is
\* [id, obj]: obj = <<>> while the object is still in game.players (the
\* object is the player with that id), obj = <<o>> once the player was
\* filtered out of game.players (the object lives on, unchanged, in o).
Ref(p) == [id |-> p.id, obj |-> <<>>]

Deref(g, r) == IF r.obj = <<>> THEN find(g.players, r.id)[1] ELSE r.obj[1]

\* the player who goes is taken off the list of contestants
Forget(g, s) == SelectSeq(g.activePlayersInRound, LAMBDA r : r.id # s)

Detach(g, s) ==
    [i \in DOMAIN g.activePlayersInRound |->
        LET r == g.activePlayersInRound[i]
        IN IF r.id = s /\ r.obj = <<>> THEN [r EXCEPT !.obj = find(g.players, s)] ELSE r]

\* the callback is dropped instead of scheduled
dropTimeout(w, d) == w

setTimeout(w, d) == [w EXCEPT !.timeouts[d] = @ + 1]

say(w, m) == [w EXCEPT !.out.messages = @ \cup {m}]

\* ---- helper functions of the program ----------------------------------------
clearGameIntervals(g) ==
    [g EXCEPT !.preRoundIntervalId = {}, !.roundTimerIntervalId = {}]

\* the intervals of g that are running
liveIntervals(g) ==
    {k \in {"countdown", "bidding"} :
        \/ k = "countdown" /\ g.preRoundIntervalId # {}
        \/ k = "bidding" /\ (g.roundTimerIntervalId # {} \/ Leaked(g) > 0)}

\* the eliminated players are ranked as well
rankedWithEliminated(ps) == ps

\* the players gameEnded ranks (line 1088)
ranked(ps) == alivePlayers(ps)

\* the ranking of gameEnded: sort by tokens, then time, both descending; the
\* sort is stable, so the first of the best players in join order is on top
finalWinner(ps) ==
    LET alive == ranked(ps)
        before(a, b) == a.tokens > b.tokens \/ (a.tokens = b.tokens /\ timeOf(a) > timeOf(b))
    IN IF Len(alive) = 0 THEN [isTie |-> FALSE, ids |-> {}]
       ELSE LET tops == {i \in DOMAIN alive : \A j \in DOMAIN alive : ~before(alive[j], alive[i])}
                topPlayer == alive[CHOOSE i \in tops : \A j \in tops : i <= j]
                coWinners == {i \in DOMAIN alive : alive[i].tokens = topPlayer.tokens
                                                  /\ timeOf(alive[i]) = timeOf(topPlayer)}
            IN IF Cardinality(coWinners) > 1
               THEN [isTie |-> TRUE, ids |-> {alive[i].id : i \in coWinners}]
               ELSE [isTie |-> FALSE, ids |-> {topPlayer.id}]

gameEnded(w, reason) ==
    IF ~w.exists THEN w
    ELSE [w EXCEPT !.game = clearGameIntervals([w.game EXCEPT !.status = "gameOver"]),
                   !.out.gameOver = <<[reason |-> reason,
                                       finalWinner |-> finalWinner(w.game.players)]>>]

\* startNewRound takes the tokens back as well
resetForRoundAndTokens(p) ==
    [p EXCEPT !.isHoldingButton = FALSE, !.hasOptedOut = FALSE,
              !.roundHoldDuration = 0, !.roundHoldHalf = FALSE, !.tokens = 0]

\* startNewRound forgets the elimination as well
resetForRoundAndRevive(p) ==
    [p EXCEPT !.isHoldingButton = FALSE, !.hasOptedOut = FALSE,
              !.roundHoldDuration = 0, !.roundHoldHalf = FALSE,
              !.isEliminated = FALSE]

\* the per-player reset of startNewRound (lines 838-842)
resetForRound(p) ==
    [p EXCEPT !.isHoldingButton = FALSE, !.hasOptedOut = FALSE,
              !.roundHoldDuration = 0, !.roundHoldHalf = FALSE]

\* one round too many is played
roundsExhaustedLate(game) == halves(game.currentRound, FALSE) > maxRoundsOf(game)

\* the last round is over (line 824)
roundsExhausted(game) == halves(game.currentRound, FALSE) >= maxRoundsOf(game)

startNewRound(w) ==
    IF ~w.exists THEN w
    ELSE LET game == w.game
             alive == alivePlayers(game.players)
         IN IF Len(alive) <= 1 /\ game.currentRound > 0
            THEN gameEnded(w, IF Len(alive) = 1 THEN "soleSurvivor" ELSE "allEliminated")
            ELSE IF roundsExhausted(game)
            THEN gameEnded(w, "roundsExhausted")
            ELSE say([w EXCEPT
                    !.game.currentRound = @ + 1,
                    !.game.preRoundCountdown = 0,
                    !.game.roundElapsedTime = 0,
                    !.game.status = "waiting",
                    !.game.players = [i \in DOMAIN @ |-> resetForRound(@[i])]],
                    "newRound")

\* the scan with the tie branch overwriting the winners instead of adding
RECURSIVE scanWinnersLastOnly(_, _, _, _)
scanWinnersLastOnly(objs, i, maxHoldDuration, winningPlayers) ==
    IF i > Len(objs) THEN [maxHoldDuration |-> maxHoldDuration, winningPlayers |-> winningPlayers]
    ELSE LET p == objs[i]
         IN IF ~p.isEliminated /\ ~p.hasOptedOut /\ p.roundHoldDuration >= maxHoldDuration
            THEN scanWinnersLastOnly(objs, i + 1, p.roundHoldDuration, <<i>>)
            ELSE scanWinnersLastOnly(objs, i + 1, maxHoldDuration, winningPlayers)

\* the winner scan of endRoundOnServer over the contestants objs, from
\* position i on, with the maximum and the winners (positions) found so far;
\* it looks at players that are not eliminated, whose roundHoldDuration is a
\* whole number of seconds (only a forced release, which eliminates, sets
\* roundHoldHalf)
RECURSIVE scanWinners(_, _, _, _)
scanWinners(objs, i, maxHoldDuration, winningPlayers) ==
    IF i > Len(objs) THEN [maxHoldDuration |-> maxHoldDuration, winningPlayers |-> winningPlayers]
    ELSE LET p == objs[i]
         IN IF ~p.isEliminated /\ ~p.hasOptedOut
            THEN IF p.roundHoldDuration > maxHoldDuration
                 THEN scanWinners(objs, i + 1, p.roundHoldDuration, <<i>>)
                 ELSE IF p.roundHoldDuration = maxHoldDuration
                 THEN scanWinners(objs, i + 1, maxHoldDuration, Append(winningPlayers, i))
                 ELSE scanWinners(objs, i + 1, maxHoldDuration, winningPlayers)
            ELSE scanWinners(objs, i + 1, maxHoldDuration, winningPlayers)

\* the winner is given the time instead of paying it
awardWithRefund(p, maxHoldDuration) ==
    [p EXCEPT !.tokens = @ + 1, !.time = @ + maxHoldDuration]

\* the winner is credited but not charged
awardWithoutCharge(p, maxHoldDuration) == [p EXCEPT !.tokens = @ + 1]

\* what a winner gets (lines 1043-1044, 1051-1052)
award(p, maxHoldDuration) ==
    [p EXCEPT !.tokens = @ + 1, !.time = @ - maxHoldDuration]

\* the opt-out outlives the round
settleKeepsOptOut(p) == [p EXCEPT !.isHoldingButton = FALSE]

\* the reset at the end of endRoundOnServer (lines 1067-1071)
settle(p) == [p EXCEPT !.isHoldingButton = FALSE, !.hasOptedOut = FALSE]

endRoundOnServer(w) ==
    IF ~w.exists THEN w
    ELSE LET game == w.game
             refs == game.activePlayersInRound
             objs == [k \in DOMAIN refs |-> Deref(game, refs[k])]
             scan == scanWinners(objs, 1, 0, <<>>)
             m == scan.maxHoldDuration
             listed == {scan.winningPlayers[k] : k \in DOMAIN scan.winningPlayers}
             paid == IF m = 0 \/ Len(scan.winningPlayers) = 0 THEN {} ELSE listed
             win(p) == award(p, m)
             players1 == [i \in DOMAIN game.players |->
                            IF \E k \in paid : refs[k].obj = <<>> /\ refs[k].id = game.players[i].id
                            THEN win(game.players[i]) ELSE game.players[i]]
             refs1 == [k \in DOMAIN refs |->
                            IF k \in paid /\ refs[k].obj # <<>>
                            THEN [refs[k] EXCEPT !.obj = <<win(@[1])>>] ELSE refs[k]]
             game1 == [game EXCEPT
                !.status = "roundEnded",
                !.activePlayersInRound = refs1,
                !.players = [i \in DOMAIN players1 |-> settle(players1[i])]]
         IN setTimeout([w EXCEPT
                !.game = game1,
                !.out.roundWinner = <<[winners |-> {objs[k].id : k \in listed},
                                       duration |-> m,
                                       isTie |-> Len(scan.winningPlayers) > 1]>>,
                !.resolved = [k \in DOMAIN refs |->
                                [before |-> objs[k], after |-> Deref(game1, refs1[k])]]],
             RoundEndDelay)

\* a contestant that left the room is taken to be still in the round
hasReleasedIfPresent(game, r) ==
    LET currentPlayerState == find(game.players, r.id)
    IN /\ currentPlayerState # <<>>
       /\ \/ ~currentPlayerState[1].isHoldingButton
          \/ currentPlayerState[1].hasOptedOut
          \/ currentPlayerState[1].isEliminated

\* the test of checkAllReleasedOnServer on one contestant (lines 996-999)
hasReleased(game, r) ==
    LET currentPlayerState == find(game.players, r.id)
    IN \/ currentPlayerState = <<>>
       \/ ~currentPlayerState[1].isHoldingButton
       \/ currentPlayerState[1].hasOptedOut
       \/ currentPlayerState[1].isEliminated

checkAllReleasedOnServer(w) ==
    IF ~w.exists \/ w.game.status # "inRound" THEN w
    ELSE LET game == w.game
             allActiveReleased ==
                \A k \in DOMAIN game.activePlayersInRound :
                    hasReleased(game, game.activePlayersInRound[k])
         IN IF allActiveReleased
            THEN endRoundOnServer([w EXCEPT !.game = clearGameIntervals(game)])
            ELSE w

\* the player is released but stays in the game
forcedReleaseKeepsPlaying(p) ==
    [p EXCEPT !.isHoldingButton = FALSE, !.roundHoldDuration = p.time,
              !.roundHoldHalf = p.timeHalf, !.hasOptedOut = TRUE]

\* what the tick does to a player whose budget is used up (lines 970-973)
forcedRelease(p) ==
    [p EXCEPT !.isHoldingButton = FALSE, !.roundHoldDuration = p.time,
              !.roundHoldHalf = p.timeHalf,
              !.hasOptedOut = TRUE, !.isEliminated = TRUE]

\* the test of the tick, after its increment, for a used-up budget (lines 968-970)
budgetUsedUp(p) == timeOf(p) - (roundHoldDurationOf(p) + 2) <= 0

\* the body of the callback of the bidding interval (lines 962-987)
roundTimerTick(w) ==
    LET game == w.game
        forced(p) == budgetUsedUp(p)
        counted(p) == p.isHoldingButton /\ ~p.hasOptedOut /\ ~p.isEliminated
        tick(p) ==
            IF ~counted(p) THEN p
            ELSE IF forced(p)
            THEN forcedRelease(p)
            ELSE [p EXCEPT !.roundHoldDuration = @ + 1]
        somePlayerStatusChanged ==
            \E i \in DOMAIN game.players : counted(game.players[i]) /\ forced(game.players[i])
        w1 == [w EXCEPT !.game.roundElapsedTime = @ + 1,
                        !.game.players = [i \in DOMAIN @ |-> tick(@[i])]]
    IN checkAllReleasedOnServer(IF somePlayerStatusChanged THEN say(w1, "timeUp") ELSE w1)

\* the bidding interval fires and is due again after its period (lines 961, 989)
roundTimerCallback(w) ==
    roundTimerTick([w EXCEPT !.game.roundTimerIntervalId = {IntervalPeriod}])

\* a bidding interval without a handle fires: the same callback
leakedRoundTimerCallback(w) ==
    roundTimerTick([w EXCEPT !.game.leakedRoundTimers =
                        [@ EXCEPT ![0] = @ - 1, ![IntervalPeriod] = @ + 1]])

\* a filter that lets in a holder who has given the round up
holdingAndNotEliminated(p) == p.isHoldingButton /\ ~p.isEliminated

\* the filter that picks the contestants of the round (line 943)
activeFilter(p) == p.isHoldingButton /\ ~p.hasOptedOut /\ ~p.isEliminated

\* a round is started whoever contests it
alwaysContested(active) == FALSE

\* the test for a round nobody contests (line 947)
noOneContests(active) == Len(active) < 1

handlePreRoundEndOnServer(w) ==
    IF ~w.exists THEN w
    ELSE LET game == w.game
             outOfTime(p) == timeOf(p) <= 0 /\ ~p.hasOptedOut /\ ~p.isEliminated
             mark(p) ==
                IF outOfTime(p)
                THEN [p EXCEPT !.hasOptedOut = TRUE, !.isEliminated = TRUE]
                ELSE IF ~p.isHoldingButton /\ ~p.hasOptedOut /\ ~p.isEliminated
                THEN [p EXCEPT !.hasOptedOut = TRUE]
                ELSE p
             players1 == [i \in DOMAIN game.players |-> mark(game.players[i])]
             active == SelectSeq(players1, activeFilter)
             w1 == [w EXCEPT !.game.players = players1,
                             !.game.activePlayersInRound = [k \in DOMAIN active |-> Ref(active[k])]]
             w2 == IF \E i \in DOMAIN game.players : outOfTime(game.players[i])
                   THEN say(w1, "outOfTime") ELSE w1
         IN IF noOneContests(active)
            THEN setTimeout(say(w2, "noContest"), NoContestDelay)
            ELSE say([w2 EXCEPT !.game.status = "inRound",
                                !.game.roundElapsedTime = 0,
                                !.game.leakedRoundTimers = leak(@, game.roundTimerIntervalId),
                                !.game.roundTimerIntervalId = {IntervalPeriod}],
                     "roundStarting")

\* the countdown interval cancels itself (lines 913-914)
stopCountdown(g) == [g EXCEPT !.preRoundIntervalId = {}]

\* the callback of the countdown interval (lines 907-918)
preRoundCallback(w) ==
    LET w1 == [w EXCEPT !.game.preRoundCountdown = @ - 1,
                        !.game.preRoundIntervalId = {IntervalPeriod}]
    IN IF w1.game.preRoundCountdown <= 0
       THEN handlePreRoundEndOnServer([w1 EXCEPT !.game = stopCountdown(@)])
       ELSE w1

startPreRoundCountdown(w) ==
    IF ~w.exists \/ w.game.status = "preCountdown" \/ w.game.status = "inRound" THEN w
    ELSE LET game == w.game
             alive == alivePlayers(game.players)
             playerCount == Len(alive)
             allPlayersHolding == allHolding(alive)
             shouldStartCountdown ==
                IF playerCount = 1 THEN allPlayersHolding
                ELSE playerCount >= 2 /\ allPlayersHolding
         IN IF ~shouldStartCountdown THEN w
            ELSE say([w EXCEPT
                    !.game.status = "preCountdown",
                    !.game.preRoundCountdown = CountdownSeconds,
                    !.game.players = [i \in DOMAIN @ |->
                        [@[i] EXCEPT !.hasOptedOut = FALSE, !.roundHoldDuration = 0,
                                     !.roundHoldHalf = FALSE]],
                    !.game.leakedInterval = @ \/ game.preRoundIntervalId # {},
                    !.game.preRoundIntervalId = {IntervalPeriod}], "countdown")

\* ---- socket event handlers ----------------------------------------------------
reply(w, r) == [w EXCEPT !.out.callback = r]

\* only a budget that is too small is refused
initialTimeTooSmall(initialTime) == initialTime < MinInitialTime

\* the test of createRoom on initialTime (line 1143)
initialTimeRefused(initialTime) ==
    initialTime < MinInitialTime \/ initialTime > MaxInitialTime

\* the test of createRoom on maxRounds (line 1147)
maxRoundsRefused(maxRounds) ==
    maxRounds < MinMaxRounds \/ maxRounds > MaxMaxRounds

createRoom(w, s, playerName, initialTime, maxRounds) ==
    IF initialTimeRefused(initialTime)
    THEN reply(w, "invalidTime")
    ELSE IF maxRoundsRefused(maxRounds)
    THEN reply(w, "invalidRounds")
    ELSE startNewRound(reply([w EXCEPT
            !.exists = TRUE,
            !.game = newGame(newPlayer(s, playerName, initialTime), maxRounds)], "ok"))

\* a fifth player is let in
roomFullAtFive(game) == Len(game.players) > MaxPlayers

\* the capacity test of joinRoom (line 1197)
roomFull(game) == Len(game.players) >= MaxPlayers

\* no name is refused
anyName(game, playerName) == FALSE

\* the name test of joinRoom (line 1202): === on the two strings
nameTaken(game, playerName) ==
    \E i \in DOMAIN game.players : game.players[i].name = playerName

\* the new player is put first
unshift(ps, p) == <<p>> \o ps

\* game.players.push (line 1218)
push(ps, p) == Append(ps, p)

joinRoom(w, s, playerName) ==
    IF ~w.exists THEN reply(w, "roomNotFound")
    ELSE IF w.game.status \notin {"waiting", "roundEnded", "gameOver"}
    THEN reply(w, "notJoinable")
    ELSE IF roomFull(w.game) THEN reply(w, "roomFull")
    ELSE IF nameTaken(w.game, playerName)
    THEN reply(w, "nameTaken")
    ELSE reply([w EXCEPT !.game.players =
                    push(@, [newPlayer(s, playerName, w.game.players[1].time)
                                EXCEPT !.timeHalf = w.game.players[1].timeHalf])], "ok")

\* the eliminated players are counted as well
insufficientCountingAll(game) ==
    game.status \in {"preCountdown", "inRound"} /\ Len(game.players) < 2

\* the test that ends the game when a player has left (lines 1260-1262)
insufficient(game) ==
    game.status \in {"preCountdown", "inRound"} /\ Len(alivePlayers(game.players)) < 2

\* leaveRoom; the disconnect handler repeats it line by line
leaveRoom(w, s) ==
    IF ~w.exists THEN w
    ELSE LET disconnectedPlayer == find(w.game.players, s)
             game == [w.game EXCEPT !.players = SelectSeq(@, LAMBDA p : p.id # s),
                                    !.activePlayersInRound = Detach(w.game, s)]
             w1 == [w EXCEPT !.game = game]
             alive == alivePlayers(game.players)
             wasHolding == disconnectedPlayer # <<>> /\ disconnectedPlayer[1].isHoldingButton
         IN IF Len(game.players) = 0
            THEN [w EXCEPT !.exists = FALSE, !.game = NoGame,
                           !.orphans = @ \cup liveIntervals(clearGameIntervals(game))]
            ELSE IF insufficient(game)
            THEN gameEnded(w1, "insufficientPlayers")
            ELSE IF game.status = "preCountdown" /\ wasHolding /\ game.preRoundIntervalId # {}
            THEN LET w2 == say([w1 EXCEPT !.game.preRoundIntervalId = {},
                                          !.game.status = "waiting"], "interrupted")
                 IN IF allHolding(alive)
                    THEN startPreRoundCountdown(w2)
                    ELSE setTimeout(w2, InterruptDelay)
            ELSE IF game.status = "inRound" /\ wasHolding
            THEN checkAllReleasedOnServer(w1)
            ELSE w1

disconnect(w, s) == leaveRoom(w, s)

setPlayer(w, s, p) ==
    [w EXCEPT !.game.players = [i \in DOMAIN @ |-> IF @[i].id = s THEN p ELSE @[i]]]

\* only an exhausted budget bars a hold
holdRefusedBudgetOnly(player) == timeOf(player) <= 0

\* who may not hold (line 1300)
holdRefused(player) == timeOf(player) <= 0 \/ player.isEliminated

\* the arming check looks at every player
everyPlayer(game) == game.players

\* the players the arming check of playerHolding looks at (line 1312)
armingPlayers(game) == alivePlayers(game.players)

playerHolding(w, s) ==
    IF ~w.exists \/ find(w.game.players, s) = <<>> THEN w
    ELSE LET player == find(w.game.players, s)[1]
         IN IF holdRefused(player) THEN say(w, "cannotHold")
            ELSE IF player.isHoldingButton THEN w
            ELSE LET w1 == setPlayer(w, s, [player EXCEPT !.isHoldingButton = TRUE])
                     game == w1.game
                     alive == armingPlayers(game)
                     playerCount == Len(alive)
                     allPlayersHolding == allHolding(alive)
                 IN IF game.status = "waiting" \/ game.status = "roundEnded"
                    THEN IF playerCount = 1
                         THEN IF allPlayersHolding /\ game.preRoundIntervalId = {}
                              THEN startPreRoundCountdown(w1) ELSE w1
                         ELSE IF playerCount >= 2 /\ allPlayersHolding
                                 /\ game.preRoundIntervalId = {}
                              THEN startPreRoundCountdown(w1) ELSE w1
                    ELSE w1

playerReleased(w, s) ==
    IF ~w.exists \/ find(w.game.players, s) = <<>> THEN w
    ELSE LET player == find(w.game.players, s)[1]
         IN IF ~player.isHoldingButton THEN w
            ELSE IF w.game.status = "preCountdown" /\ w.game.preRoundIntervalId # {}
            THEN say(setPlayer(w, s, [player EXCEPT !.isHoldingButton = FALSE,
                                                    !.hasOptedOut = TRUE]), "optedOut")
            ELSE LET w1 == setPlayer(w, s, [player EXCEPT !.isHoldingButton = FALSE])
                 IN IF w1.game.status = "inRound" THEN checkAllReleasedOnServer(w1) ELSE w1

\* ---- the state machine ----------------------------------------------------------
Init ==
    /\ games = {}
    /\ sockets = [s \in Sockets |-> IF s <= MaxSockets THEN "open" ELSE "closed"]
    /\ roomIdTaken = FALSE
    /\ timeouts = NoTimeouts
    /\ emitted = NoOut
    /\ resolved = <<>>
    /\ orphans = {}

\* sockets[s]: "open" (connected, no roomId), "room" (socket.roomId is the
\* room), "closed" (disconnected)
\* connection s sends createRoom with the given data
Create(s, playerName, initialTime, maxRounds) ==
    /\ sockets[s] = "open"
    /\ ~roomIdTaken
    /\ LET w == createRoom(World, s, playerName, initialTime, maxRounds)
       IN /\ Commit(w)
          /\ roomIdTaken' = w.exists
          /\ sockets' = IF w.exists THEN [sockets EXCEPT ![s] = "room"] ELSE sockets

CreateRoom(s) ==
    \E playerName \in NameInputs(s), initialTime \in InitialTimeInputs,
       maxRounds \in MaxRoundsInputs :
       Create(s, playerName, initialTime, maxRounds)

CreateRoomAtEdges(s) ==
    \E playerName \in NameInputs(s), initialTime \in EdgeInitialTimes,
       maxRounds \in EdgeMaxRounds :
       Create(s, playerName, initialTime, maxRounds)

JoinRoom(s) ==
    /\ sockets[s] = "open"
    /\ \E playerName \in NameInputs(s) :
          LET w == joinRoom(World, s, playerName)
          IN /\ Commit(w)
             /\ sockets' = IF w.out.callback = "ok"
                           THEN [sockets EXCEPT ![s] = "room"] ELSE sockets
    /\ UNCHANGED roomIdTaken

LeaveRoom(s) ==
    /\ sockets[s] # "closed"
    /\ Commit(IF sockets[s] = "room" THEN leaveRoom(World, s) ELSE World)
    /\ sockets' = [sockets EXCEPT ![s] = "open"]
    /\ UNCHANGED roomIdTaken

Disconnect(s) ==
    /\ sockets[s] # "closed"
    /\ Commit(IF sockets[s] = "room" THEN disconnect(World, s) ELSE World)
    /\ sockets' = [sockets EXCEPT ![s] = "closed"]
    /\ UNCHANGED roomIdTaken

PlayerHolding(s) ==
    /\ sockets[s] # "closed"
    /\ Commit(IF sockets[s] = "room" THEN playerHolding(World, s) ELSE World)
    /\ UNCHANGED <<sockets, roomIdTaken>>

PlayerReleased(s) ==
    /\ sockets[s] # "closed"
    /\ Commit(IF sockets[s] = "room" THEN playerReleased(World, s) ELSE World)
    /\ UNCHANGED <<sockets, roomIdTaken>>

\* the countdown interval fires
PreRoundInterval ==
    /\ World.exists
    /\ World.game.preRoundIntervalId = {0}
    /\ \E w \in {preRoundCallback(World)} : Commit(w)
    /\ UNCHANGED <<sockets, roomIdTaken>>

\* the seconds the model follows a bidding interval for: a round, or the
\* time it ticks on outside a round
tickLimit(g) == IF g.status = "inRound" THEN MaxRoundSeconds ELSE MaxStraySeconds

\* the bidding interval fires
RoundTimerInterval ==
    /\ World.exists
    /\ World.game.roundTimerIntervalId = {0}
    /\ World.game.roundElapsedTime < tickLimit(World.game)
    /\ Commit(roundTimerCallback(World))
    /\ UNCHANGED <<sockets, roomIdTaken>>

\* a bidding interval without a handle fires
LeakedRoundTimerInterval ==
    /\ World.exists
    /\ World.game.leakedRoundTimers[0] > 0
    /\ World.game.roundElapsedTime < tickLimit(World.game)
    /\ Commit(leakedRoundTimerCallback(World))
    /\ UNCHANGED <<sockets, roomIdTaken>>

\* a deferred startNewRound(roomId) fires
StartNewRoundTimeout ==
    /\ timeouts[0] > 0
    /\ \E w0 \in {World} :
          \E w \in {startNewRound([w0 EXCEPT !.timeouts[0] = @ - 1])} : Commit(w)
    /\ UNCHANGED <<sockets, roomIdTaken>>

lower(h) == {k - 1 : k \in h}

\* one second passes: every timer that is not yet due comes one second closer
SecondPasses ==
    /\ timeouts[0] = 0
    /\ \E w0 \in {World} :
          /\ w0.exists => /\ 0 \notin w0.game.preRoundIntervalId
                          /\ 0 \notin w0.game.roundTimerIntervalId
                          /\ w0.game.leakedRoundTimers[0] = 0
          /\ \/ Pending(timeouts) > 0
             \/ w0.exists /\ liveIntervals(w0.game) # {}
          /\ \E w \in {[w0 EXCEPT
                    !.timeouts = [d \in DOMAIN @ |-> IF d + 1 \in DOMAIN @ THEN @[d + 1] ELSE 0],
                    !.game = IF w0.exists
                             THEN [@ EXCEPT !.preRoundIntervalId = lower(@),
                                            !.roundTimerIntervalId = lower(@),
                                            !.leakedRoundTimers =
                                                [k \in DOMAIN @ |-> IF k + 1 \in DOMAIN @ THEN @[k + 1] ELSE 0]]
                             ELSE @]} : Commit(w)
    /\ UNCHANGED <<sockets, roomIdTaken>>

Next ==
    \/ \E s \in Sockets : CreateRoom(s)
    \/ \E s \in Sockets : JoinRoom(s)
    \/ \E s \in Sockets : LeaveRoom(s)
    \/ \E s \in Sockets : Disconnect(s)
    \/ \E s \in Sockets : PlayerHolding(s)
    \/ \E s \in Sockets : PlayerReleased(s)
    \/ PreRoundInterval
    \/ RoundTimerInterval
    \/ StartNewRoundTimeout
    \/ SecondPasses

Spec == Init /\ [][Next]_vars

\* ---- a room late in its game ---------------------------------------------------
\* The room as startNewRound leaves it at the start of round LatePlayers + 1,
\* after LatePlayers rounds in which players 1, 2, ... each won one round
\* alone: player s held for MinInitialTime - lateBudget(s) seconds in round s
\* and has lateBudget(s) seconds left, the others let go earlier.  The room
\* was created with initialTime = MinInitialTime and LateRoundsLeft more
\* rounds than are over or running.  From here on players only hold,
\* release and disconnect.
LateSockets == 1..LatePlayers

lateBudget(s) == IF s = 1 THEN 1 ELSE LateBudget

lateGame ==
    [newGame(newPlayer(1, nameOf(1), lateBudget(1)), LatePlayers + 1 + LateRoundsLeft) EXCEPT
        !.players = [s \in LateSockets |->
                        [newPlayer(s, nameOf(s), lateBudget(s)) EXCEPT !.tokens = 1]],
        !.currentRound = LatePlayers + 1]

InitLate ==
    /\ games = {lateGame}
    /\ sockets = [s \in Sockets |-> IF s \in LateSockets THEN "room" ELSE "closed"]
    /\ roomIdTaken = TRUE
    /\ timeouts = NoTimeouts
    /\ emitted = [NoOut EXCEPT !.messages = {"newRound"}]
    /\ resolved = <<>>
    /\ orphans = {}

NextLate ==
    \/ \E s \in Sockets : Disconnect(s)
    \/ \E s \in Sockets : PlayerHolding(s)
    \/ \E s \in Sockets : PlayerReleased(s)
    \/ PreRoundInterval
    \/ RoundTimerInterval
    \/ StartNewRoundTimeout
    \/ SecondPasses

SpecLate == InitLate /\ [][NextLate]_vars

\* Node runs a due callback as soon as the running handler returns, and
\* time goes on: the countdown interval and the deferred startNewRound fire
\* when they are due, and the next second comes when no timer is due.
FairLate ==
    /\ SpecLate
    /\ WF_vars(PreRoundInterval)
    /\ WF_vars(StartNewRoundTimeout)
    /\ WF_vars(SecondPasses)

\* ---- a late room in which one player is rich --------------------------------------
\* The late room, but its last player won its round in MinInitialTime -
\* RichBudget seconds and has RichBudget seconds left: a budget that outlasts
\* a countdown, so a bidding interval that ticks during a countdown finds the
\* player still holding when the countdown ends.
threeGame ==
    [lateGame EXCEPT !.players[LatePlayers].time = RichBudget]

InitThree ==
    /\ games = {threeGame}
    /\ sockets = [s \in Sockets |-> IF s \in LateSockets THEN "room" ELSE "closed"]
    /\ roomIdTaken = TRUE
    /\ timeouts = NoTimeouts
    /\ emitted = [NoOut EXCEPT !.messages = {"newRound"}]
    /\ resolved = <<>>
    /\ orphans = {}

NextThree ==
    \/ \E s \in Sockets : Disconnect(s)
    \/ \E s \in Sockets : PlayerHolding(s)
    \/ \E s \in Sockets : PlayerReleased(s)
    \/ PreRoundInterval
    \/ RoundTimerInterval
    \/ LeakedRoundTimerInterval
    \/ StartNewRoundTimeout
    \/ SecondPasses

SpecThree == InitThree /\ [][NextThree]_vars

\* ---- a late room whose budgets are not whole -------------------------------------
\* The late room, but created with initialTime = MinInitialTime + 1/2 and
\* maxRounds = LatePlayers + 1 + 1/2, which createRoom accepts (lines 1143
\* and 1147 test the type and the range of the numbers), and each player won
\* its round in MinInitialTime - lateBudget(1) seconds: every budget is
\* lateBudget(1) seconds and a half, and the round that is running is the
\* last one that maxRounds covers.
halfGame ==
    [lateGame EXCEPT
        !.players = [s \in DOMAIN @ |->
            [@[s] EXCEPT !.time = lateBudget(1), !.timeHalf = TRUE]],
        !.maxRounds = LatePlayers + 1,
        !.maxRoundsHalf = TRUE]

InitHalf ==
    /\ games = {halfGame}
    /\ sockets = [s \in Sockets |-> IF s \in LateSockets THEN "room" ELSE "closed"]
    /\ roomIdTaken = TRUE
    /\ timeouts = NoTimeouts
    /\ emitted = [NoOut EXCEPT !.messages = {"newRound"}]
    /\ resolved = <<>>
    /\ orphans = {}

SpecHalf == InitHalf /\ [][NextLate]_vars

\* ---- the lobby -----------------------------------------------------------------
\* LobbySockets connections, one more than a room takes, create, join,
\* leave and hold within the first second of the room: no timer has fired
\* yet, so rooms of any length and budget can be created.  (disconnect does
\* to the room what leaveRoom does.)
InitLobby ==
    /\ games = {}
    /\ sockets = [s \in Sockets |-> IF s <= LobbySockets THEN "open" ELSE "closed"]
    /\ roomIdTaken = FALSE
    /\ timeouts = NoTimeouts
    /\ emitted = NoOut
    /\ resolved = <<>>
    /\ orphans = {}

NextLobby ==
    \/ \E s \in Sockets : CreateRoomAtEdges(s)
    \/ \E s \in Sockets : JoinRoom(s)
    \/ \E s \in Sockets : LeaveRoom(s)
    \/ \E s \in Sockets : PlayerHolding(s)

SpecLobby == InitLobby /\ [][NextLobby]_vars

\* ---- the room seen from outside ---------------------------------------------------
Room == CHOOSE g \in games : g.id = RoomId

Status == IF games = {} THEN "none" ELSE Room.status

Player(g, s) == find(g.players, s)[1]

countdownLive(g) == g.preRoundIntervalId # {}

biddingLive(g) == g.roundTimerIntervalId # {}

\* what startNewRound must leave alone when it fires out of turn
roundState(g) ==
    <<g.currentRound, g.status,
      [i \in DOMAIN g.players |-> <<g.players[i].id, g.players[i].isHoldingButton,
                                    g.players[i].hasOptedOut, g.players[i].roundHoldDuration>>]>>

\* no interval handle is ever overwritten while its interval is live, so one
\* handle per interval is all the state the two intervals have
NoLeakedInterval == \A g \in games : ~g.leakedInterval /\ Leaked(g) = 0

\* ---- claims ----------------------------------------------------------------------

\* C1: whenever the countdown timer is live the phase is preCountdown, and
\* whenever the bidding timer is live the phase is inRound.
C1_TimerImpliesPhase ==
    \A g \in games :
        /\ countdownLive(g) => g.status = "preCountdown"
        /\ biddingLive(g) => g.status = "inRound"

\* C2: at most one of the countdown timer and the bidding timer is live.
C2_AtMostOneTimer ==
    \A g \in games : ~(countdownLive(g) /\ biddingLive(g))

\* the room has left the phase in which every startNewRound is scheduled: a
\* countdown is running (none is when a callback is scheduled), or the round
\* is being played, or the game is over
movedOn(g) ==
    \/ g.status = "preCountdown" /\ countdownLive(g)
    \/ g.status = "inRound"
    \/ g.status = "gameOver"

\* C3: a deferred startNewRound that fires after the room has moved on to
\* preCountdown, inRound or gameOver changes neither currentRound nor the
\* phase nor any player's isHoldingButton, hasOptedOut or roundHoldDuration.
C3_StaleStartNewRoundNoEffect ==
    [][(games # {} /\ movedOn(Room) /\ StartNewRoundTimeout)
          => (games' # {} /\ roundState(Room') = roundState(Room))]_vars

\* C4: once the phase is gameOver it stays gameOver and currentRound stays as
\* it is, for as long as the room exists.
C4_GameOverTerminal ==
    [][(Status = "gameOver" /\ games' # {})
          => (Room'.status = "gameOver" /\ Room'.currentRound = Room.currentRound)]_vars

\* the arming condition: somebody is left in the game and everybody left holds
armed(g) ==
    LET alive == alivePlayers(g.players)
    IN Len(alive) >= 1 /\ allHolding(alive)

\* a hold of s the room takes: s is a player, in the game, with budget, not holding
holdTaken(g, s) ==
    /\ find(g.players, s) # <<>>
    /\ ~Player(g, s).isEliminated
    /\ Player(g, s).time > 0
    /\ ~Player(g, s).isHoldingButton

countdownStarted(g) ==
    g.status = "preCountdown" /\ countdownLive(g) /\ g.preRoundCountdown = CountdownSeconds

\* C5: a hold taken in waiting or roundEnded with no countdown timer live starts
\* a countdown exactly when, after it, every non-eliminated player holds and
\* there is at least one; and no step enters preCountdown with no
\* non-eliminated player in the room.
C5_Arming ==
    [][/\ \A s \in Sockets :
            (/\ games # {}
             /\ sockets[s] = "room"
             /\ holdTaken(Room, s)
             /\ Room.status \in {"waiting", "roundEnded"}
             /\ ~countdownLive(Room)
             /\ PlayerHolding(s))
            => (countdownStarted(Room') <=> armed(Room'))
       /\ (games' # {} /\ Status # "preCountdown" /\ Room'.status = "preCountdown")
            => Len(alivePlayers(Room'.players)) >= 1]_vars

\* C5 witness: a hold has just armed a countdown in a room that also holds an
\* eliminated player, who is not holding.
C5_Witness ==
    \E g \in games :
        /\ countdownStarted(g)
        /\ emitted.messages = {"countdown"}
        /\ \E i \in DOMAIN g.players : g.players[i].isEliminated

\* the contestants of a resolved round that can win it
eligible(c) == ~c.before.isEliminated /\ ~c.before.hasOptedOut

greatest(S) == IF S = {} THEN 0 ELSE CHOOSE m \in S : \A x \in S : x <= m

paidLike(c, m) ==
    c.after.tokens = c.before.tokens + 1 /\ c.after.time = c.before.time - m

untouched(c) ==
    c.after.tokens = c.before.tokens /\ c.after.time = c.before.time

\* C6: with m the greatest roundHoldDuration among the contestants that are
\* neither opted out nor eliminated: if m = 0 or there is no such contestant,
\* nobody's tokens or time change; otherwise exactly those of them with
\* roundHoldDuration = m are the winners, each with tokens + 1 and time - m.
C6_RoundResolution ==
    [][resolved' # <<>> =>
        LET cs == resolved'
            E == {k \in DOMAIN cs : eligible(cs[k])}
            m == greatest({cs[k].before.roundHoldDuration : k \in E})
            W == IF m = 0 THEN {} ELSE {k \in E : cs[k].before.roundHoldDuration = m}
        IN /\ \A k \in DOMAIN cs : IF k \in W THEN paidLike(cs[k], m) ELSE untouched(cs[k])
           /\ \A i \in DOMAIN Room'.players :
                LET q == Room'.players[i]
                    p == Player(Room, q.id)
                IN IF \E k \in W : cs[k].before.id = q.id
                   THEN q.tokens = p.tokens + 1 /\ q.time = p.time - m
                   ELSE q.tokens = p.tokens /\ q.time = p.time
           /\ m > 0 => /\ emitted'.roundWinner[1].winners = {cs[k].before.id : k \in W}
                       /\ emitted'.roundWinner[1].duration = m]_vars

\* C6 witness: a round has just been resolved as a tie of two winners.
C6_Witness ==
    /\ resolved # <<>>
    /\ Cardinality({k \in DOMAIN resolved : paidLike(resolved[k], resolved[k].before.roundHoldDuration)
                                           /\ resolved[k].before.roundHoldDuration > 0}) = 2

\* C7 as stated: in a resolved round in which some contestant held for a
\* positive time, every contestant with the greatest roundHoldDuration of the
\* round gets a token and is charged that duration.
C7_LongestHolderWins ==
    (resolved # <<>> /\ \E k \in DOMAIN resolved : resolved[k].before.roundHoldDuration > 0)
    => LET top == greatest({resolved[k].before.roundHoldDuration : k \in DOMAIN resolved})
       IN \A k \in DOMAIN resolved :
            resolved[k].before.roundHoldDuration = top => paidLike(resolved[k], top)

\* C7 as amended: in a resolved round in which some contestant that is neither
\* opted out nor eliminated held for a positive time, every such contestant
\* with the greatest roundHoldDuration among them gets a token and is charged
\* that duration.
C7_LongestEligibleHolderWins ==
    resolved # <<>> =>
        LET E == {k \in DOMAIN resolved : eligible(resolved[k])}
            top == greatest({resolved[k].before.roundHoldDuration : k \in E})
        IN top > 0 =>
            \A k \in E : resolved[k].before.roundHoldDuration = top => paidLike(resolved[k], top)

\* C7 witness: a round is won by a contestant that held for a shorter time
\* than one that ran out of budget.
C7_Witness ==
    /\ resolved # <<>>
    /\ \E k, j \in DOMAIN resolved :
          /\ eligible(resolved[k])
          /\ resolved[k].before.roundHoldDuration > 0
          /\ paidLike(resolved[k], resolved[k].before.roundHoldDuration)
          /\ resolved[j].before.isEliminated
          /\ resolved[j].before.roundHoldDuration > resolved[k].before.roundHoldDuration

\* C8: every eliminated player has time <= 0.
C8_EliminatedHasNoBudget ==
    \A g \in games : \A i \in DOMAIN g.players :
        g.players[i].isEliminated => g.players[i].time <= 0

C10_EliminatedNotHolding ==
    [][/\ \A g \in games' : \A i \in DOMAIN g.players :
            g.players[i].isEliminated => ~g.players[i].isHoldingButton
       /\ \A s \in Sockets :
            (/\ games # {}
             /\ sockets[s] = "room"
             /\ find(Room.players, s) # <<>>
             /\ Player(Room, s).isEliminated
             /\ PlayerHolding(s))
            => (games' = games /\ timeouts' = timeouts)]_vars

\* C10 witness: an eliminated player has just asked to hold and was refused.
C10_Witness ==
    \E g \in games :
        /\ "cannotHold" \in emitted.messages
        /\ \E i \in DOMAIN g.players : g.players[i].isEliminated
        /\ g.status \in {"waiting", "roundEnded"}

\* the contestants of g that are still bidding: in the room, holding, neither
\* opted out nor eliminated
bidders(g) ==
    {k \in DOMAIN g.activePlayersInRound :
        LET r == g.activePlayersInRound[k]
        IN /\ r.obj = <<>>
           /\ find(g.players, r.id) # <<>>
           /\ Player(g, r.id).isHoldingButton
           /\ ~Player(g, r.id).hasOptedOut
           /\ ~Player(g, r.id).isEliminated}

\* the ids of the contestants of g that are bidding
bidderIds(g) == {g.activePlayersInRound[k].id : k \in bidders(g)}

\* a release, a tick of the bidding timer or a departure takes the last
\* bidder out of a round that is being played
lastBidderGoes ==
    /\ Status = "inRound"
    /\ bidders(Room) # {}
    /\ \/ \E s \in Sockets : PlayerReleased(s) \/ LeaveRoom(s) \/ Disconnect(s)
       \/ RoundTimerInterval
    /\ games' # {} =>
          \A s \in bidderIds(Room) :
              \/ find(Room'.players, s) = <<>>
              \/ ~Player(Room', s).isHoldingButton
              \/ Player(Room', s).hasOptedOut
              \/ Player(Room', s).isEliminated

roundResolved ==
    /\ games' # {}
    /\ Room'.status = "roundEnded"
    /\ ~biddingLive(Room') /\ ~countdownLive(Room')
    /\ resolved' # <<>>

\* C11 as stated: a room is inRound only while some contestant is bidding,
\* and the step in which the last bidder releases, is forced out or departs
\* cancels the bidding timer and resolves the round.
C11_ReleaseCheck ==
    [][/\ \A g \in games' : g.status = "inRound" => bidders(g) # {}
       /\ lastBidderGoes => roundResolved]_vars

\* C11 as amended: a room is inRound only while some contestant is bidding,
\* and the step in which the last bidder releases, is forced out or departs
\* cancels the bidding timer and resolves the round, unless the departure
\* empties the room (the room is removed) or leaves fewer than 2
\* non-eliminated players (the game ends, the round is not resolved).
C11_ReleaseCheckUnlessGameEnds ==
    [][/\ \A g \in games' : g.status = "inRound" => bidders(g) # {}
       /\ lastBidderGoes =>
            \/ roundResolved
            \/ games' = {}
            \/ /\ Room'.status = "gameOver"
               /\ ~biddingLive(Room')
               /\ resolved' = <<>>
               /\ Len(Room'.players) < Len(Room.players)
               /\ Len(alivePlayers(Room'.players)) < 2]_vars

\* C11 witness: a round has just been resolved because its last bidder left
\* the room, the others having released before.
C11_Witness ==
    /\ Status = "roundEnded"
    /\ resolved # <<>>
    /\ \E k \in DOMAIN resolved :
          /\ resolved[k].before.isHoldingButton
          /\ find(Room.players, resolved[k].before.id) = <<>>

\* s, a holding player, releases while a countdown is running
releaseInCountdown(s) ==
    /\ Status = "preCountdown"
    /\ countdownLive(Room)
    /\ sockets[s] = "room"
    /\ find(Room.players, s) # <<>>
    /\ Player(Room, s).isHoldingButton
    /\ PlayerReleased(s)

\* C12: a release of a holding player in preCountdown with the countdown
\* timer live cancels the countdown timer in that step and marks the player
\* hasOptedOut, so that countdown never reaches its countdown-end resolution.
C12_EarlyReleaseInterrupts ==
    [][\A s \in Sockets :
          releaseInCountdown(s) =>
              /\ ~countdownLive(Room')
              /\ Player(Room', s).hasOptedOut
              /\ ~Player(Room', s).isHoldingButton]_vars

\* tokens and time of every player of the room after the step are what they
\* were before it
budgetsKept ==
    \A i \in DOMAIN Room'.players :
        LET q == Room'.players[i]
        IN /\ find(Room.players, q.id) # <<>>
           /\ q.tokens = Player(Room, q.id).tokens
           /\ q.time = Player(Room, q.id).time

\* C13: a leave or disconnect in preCountdown or inRound that leaves the room
\* non-empty with fewer than 2 non-eliminated players puts the room in
\* gameOver in that step with reason 'insufficient players', with both timers
\* cancelled, no round resolved and nobody's tokens or time changed.
C13_InsufficientPlayers ==
    [][\A s \in Sockets :
          (/\ Status \in {"preCountdown", "inRound"}
           /\ sockets[s] = "room"
           /\ LeaveRoom(s) \/ Disconnect(s)
           /\ games' # {}
           /\ Len(alivePlayers(Room'.players)) < 2)
          => /\ Room'.status = "gameOver"
             /\ emitted'.gameOver # <<>>
             /\ emitted'.gameOver[1].reason = "insufficientPlayers"
             /\ ~countdownLive(Room') /\ ~biddingLive(Room')
             /\ resolved' = <<>>
             /\ emitted'.roundWinner = <<>>
             /\ budgetsKept]_vars

\* C13 witness: the game has just ended for insufficient players in a room
\* that still holds two players, one of them eliminated.
C13_Witness ==
    /\ Status = "gameOver"
    /\ emitted.gameOver # <<>>
    /\ emitted.gameOver[1].reason = "insufficientPlayers"
    /\ Len(Room.players) = 2
    /\ Len(alivePlayers(Room.players)) = 1

\* the game has ended in this step for the given reason, in the same round
endedFor(reason) ==
    /\ Room'.status = "gameOver"
    /\ Room'.currentRound = Room.currentRound
    /\ emitted'.gameOver # <<>>
    /\ emitted'.gameOver[1].reason = reason

\* C14: a deferred startNewRound that runs with currentRound >= 1 ends the
\* game if at most one non-eliminated player is left (sole survivor, or all
\* eliminated); otherwise ends it with 'rounds exhausted', currentRound
\* unchanged, if currentRound >= maxRounds; otherwise adds 1 to currentRound,
\* sets the phase to waiting and resets every player's isHoldingButton,
\* hasOptedOut and roundHoldDuration to false, false and 0.
C14_StartNextRound ==
    [][(games # {} /\ Room.currentRound >= 1 /\ StartNewRoundTimeout) =>
          /\ games' # {}
          /\ LET alive == Len(alivePlayers(Room.players))
             IN IF alive = 1 THEN endedFor("soleSurvivor")
                ELSE IF alive = 0 THEN endedFor("allEliminated")
                ELSE IF Room.currentRound >= Room.maxRounds THEN endedFor("roundsExhausted")
                ELSE /\ Room'.currentRound = Room.currentRound + 1
                     /\ Room'.status = "waiting"
                     /\ Len(Room'.players) = Len(Room.players)
                     /\ \A i \in DOMAIN Room'.players :
                           /\ ~Room'.players[i].isHoldingButton
                           /\ ~Room'.players[i].hasOptedOut
                           /\ Room'.players[i].roundHoldDuration = 0]_vars

\* C14 witness: the last round has been played by two players still in the
\* game and startNewRound has ended the game for 'rounds exhausted'.
C14_Witness ==
    /\ Status = "gameOver"
    /\ emitted.gameOver # <<>>
    /\ emitted.gameOver[1].reason = "roundsExhausted"
    /\ Room.currentRound = Room.maxRounds
    /\ Len(alivePlayers(Room.players)) >= 2

\* the players of g whose budget the next tick of the bidding timer uses up
outOfBudget(g) ==
    {g.players[i].id : i \in {j \in DOMAIN g.players :
        /\ g.players[j].isHoldingButton
        /\ ~g.players[j].hasOptedOut
        /\ ~g.players[j].isEliminated
        /\ g.players[j].roundHoldDuration + 1 >= g.players[j].time}}

\* C15: a tick in inRound that brings the roundHoldDuration of a holding
\* player, neither opted out nor eliminated, up to the player's time makes
\* the player not holding, opted out and eliminated with roundHoldDuration
\* equal to time (the player enters the resolution so when the round ends in
\* that tick), and the room stays inRound exactly when some other contestant
\* in the room is still holding.
C15_ForcedRelease ==
    [][(Status = "inRound" /\ RoundTimerInterval /\ outOfBudget(Room) # {}) =>
          /\ \A s \in outOfBudget(Room) :
                LET q == Player(Room', s)
                IN /\ ~q.isHoldingButton
                   /\ q.isEliminated
                   /\ q.roundHoldDuration = Player(Room, s).time
                   /\ q.time = Player(Room, s).time
                   /\ IF Room'.status = "inRound" THEN q.hasOptedOut
                      ELSE \E k \in DOMAIN resolved' :
                              /\ resolved'[k].before.id = s
                              /\ resolved'[k].before.hasOptedOut
                              /\ resolved'[k].before.isEliminated
                              /\ ~resolved'[k].before.isHoldingButton
          /\ IF Room'.status = "inRound"
             THEN bidderIds(Room') \ outOfBudget(Room) # {}
             ELSE /\ Room'.status = "roundEnded"
                  /\ resolved' # <<>>
                  /\ \A k \in DOMAIN resolved' :
                        find(Room.players, resolved'[k].before.id) # <<>>
                            => ~resolved'[k].before.isHoldingButton]_vars

\* C15 witness: a tick has just forced a player out and the round goes on
\* with another contestant holding.
C15_Witness ==
    /\ Status = "inRound"
    /\ "timeUp" \in emitted.messages
    /\ bidders(Room) # {}
    /\ \E i \in DOMAIN Room.players :
          /\ Room.players[i].isEliminated
          /\ Room.players[i].hasOptedOut
          /\ Room.players[i].roundHoldDuration = Room.players[i].time

\* C16: whenever the phase is preCountdown the countdown timer is live, and
\* whenever the phase is inRound the bidding timer is live.
C16_PhaseImpliesTimer ==
    \A g \in games :
        /\ g.status = "preCountdown" => countdownLive(g)
        /\ g.status = "inRound" => biddingLive(g)

\* s is the only player of the room and leaves it or disconnects
lastPlayerGoes(s) ==
    /\ games # {}
    /\ sockets[s] = "room"
    /\ Ids(Room.players) = {s}
    /\ LeaveRoom(s) \/ Disconnect(s)

roomRemoved == games = {} /\ roomIdTaken

\* C17: when the last player leaves or disconnects the room is removed with
\* no interval left running, and in a removed room no timer step and no
\* deferred startNewRound brings a room back, changes a connection or emits
\* anything.
C17_RoomDestruction ==
    [][/\ \A s \in Sockets : lastPlayerGoes(s) => (games' = {} /\ orphans' = {})
       /\ games' = {} => orphans' = {}
       /\ (roomRemoved /\ (StartNewRoundTimeout \/ PreRoundInterval
                              \/ RoundTimerInterval \/ SecondPasses))
            => /\ games' = {}
               /\ sockets' = sockets
               /\ emitted' = NoOut
               /\ resolved' = <<>>
               /\ Pending(timeouts') <= Pending(timeouts)]_vars

\* C18: no step lowers currentRound or the tokens of a player of the room.
C18_TokensAndRoundGrow ==
    [][(games # {} /\ games' # {}) =>
          /\ Room'.currentRound >= Room.currentRound
          /\ \A i \in DOMAIN Room.players :
                find(Room'.players, Room.players[i].id) # <<>>
                    => Player(Room', Room.players[i].id).tokens >= Room.players[i].tokens]_vars

\* C18 witness: a later round has started in a room where a player has won a
\* second token.
C18_Witness ==
    /\ Status = "waiting"
    /\ Room.currentRound > LatePlayers + 1
    /\ \E i \in DOMAIN Room.players : Room.players[i].tokens >= 2

\* the winners the resolution of this step has announced
announced(out) ==
    IF out.roundWinner # <<>> /\ out.roundWinner[1].duration > 0
    THEN out.roundWinner[1].winners ELSE {}

bestPlayers(g) ==
    LET alive == {i \in DOMAIN g.players : ~g.players[i].isEliminated}
    IN {g.players[i].id : i \in {j \in alive : \A k \in alive :
            \/ g.players[k].tokens < g.players[j].tokens
            \/ /\ g.players[k].tokens = g.players[j].tokens
               /\ g.players[k].time <= g.players[j].time}}

\* C20: when the game ends, the declared winners are exactly the
\* non-eliminated players with the greatest tokens and, among those, the
\* greatest time; a tie is declared exactly when there are two or more of
\* them; no eliminated player is declared a winner.
C20_Ranking ==
    emitted.gameOver # <<>> =>
        LET fw == emitted.gameOver[1].finalWinner
        IN /\ games # {}
           /\ fw.ids = bestPlayers(Room)
           /\ fw.isTie <=> Cardinality(bestPlayers(Room)) >= 2
           /\ \A i \in DOMAIN Room.players :
                 Room.players[i].isEliminated => Room.players[i].id \notin fw.ids

\* C20 witness: a game has just ended in a tie between two players in a room
\* where an eliminated player has as many tokens as the winners.
C20_Witness ==
    /\ emitted.gameOver # <<>>
    /\ emitted.gameOver[1].finalWinner.isTie
    /\ \E i \in DOMAIN Room.players :
          /\ Room.players[i].isEliminated
          /\ \A s \in emitted.gameOver[1].finalWinner.ids :
                Room.players[i].tokens >= Player(Room, s).tokens

\* the initialTime values createRoom accepts (line 1143) among those the
\* connections send: the starting time budget of every room is one of them
validInitialTimes ==
    {t \in InitialTimeInputs : t >= MinInitialTime /\ t <= MaxInitialTime}

\* s has just joined the room
joined(s) ==
    /\ JoinRoom(s)
    /\ emitted'.callback = "ok"

\* C21: a player who joins a room gets as time the starting time budget of
\* the room, the initialTime validated when the room was created, whatever
\* rounds were played in the room before.
C21_JoinerGetsInitialTime ==
    [][\A s \in Sockets :
          joined(s) => Player(Room', s).time \in validInitialTimes]_vars

\* the phases in which a room takes new players
joinablePhases == {"waiting", "roundEnded", "gameOver"}

\* C22: a join succeeds only when the room exists, its phase is waiting,
\* roundEnded or gameOver, it has fewer than 4 players and none of them has
\* the joiner's name; every other join is answered with a failure that names
\* the first of these conditions that does not hold, is not broadcast, and
\* leaves the room (players, phase, round counters, timers), the deferred
\* callbacks and the connection as they were.
C22_JoinRejections ==
    [][\A s \in Sockets : JoinRoom(s) =>
          IF emitted'.callback = "ok"
          THEN /\ games # {} /\ games' # {}
               /\ Room.status \in joinablePhases
               /\ Len(Room.players) < MaxPlayers
               /\ find(Room'.players, s) # <<>>
               /\ \A i \in DOMAIN Room.players :
                     Room.players[i].name # Player(Room', s).name
               /\ sockets'[s] = "room"
          ELSE /\ games' = games
               /\ timeouts' = timeouts
               /\ sockets' = sockets
               /\ emitted'.messages = {}
               /\ emitted'.callback =
                     IF games = {} THEN "roomNotFound"
                     ELSE IF Room.status \notin joinablePhases THEN "notJoinable"
                     ELSE IF Len(Room.players) >= MaxPlayers THEN "roomFull"
                     ELSE "nameTaken"
               /\ emitted'.callback = "nameTaken" =>
                     \E n \in NameInputs(s) : \E i \in DOMAIN Room.players :
                         Room.players[i].name = n]_vars

\* C22 witness: a join has just been refused because the room has 4 players.
C22_Witness ==
    /\ emitted.callback = "roomFull"
    /\ games # {}
    /\ Len(Room.players) = MaxPlayers

\* the ids of the players of g, in the order of game.players
idSeq(g) == [i \in DOMAIN g.players |-> g.players[i].id]

\* C23: a room never has more than 4 players, and its players are in join
\* order: a join puts the new player behind all the others, and no step
\* changes the order of the players that stay.
C23_CapacityAndJoinOrder ==
    [][/\ \A g \in games' : Len(g.players) <= MaxPlayers
       /\ (games # {} /\ games' # {}) =>
            LET stayed == SelectSeq(idSeq(Room), LAMBDA s : s \in Ids(Room'.players))
            IN \/ idSeq(Room') = stayed
               \/ \E s \in Sockets : joined(s) /\ idSeq(Room') = Append(idSeq(Room), s)
       /\ (games = {} /\ games' # {}) => Len(Room'.players) = 1]_vars

\* C23 witness: a room has 4 players and the one that joined last is a
\* connection that came before the one that is first in the room.
C23_Witness ==
    /\ games # {}
    /\ Len(Room.players) = MaxPlayers
    /\ Room.players[MaxPlayers].id < Room.players[1].id
    /\ emitted.callback = "ok"

\* C24: no two players of a room have the same name, two names being the
\* same when they are the same string, letter case included.
C24_UniqueNames ==
    \A g \in games : \A i, j \in DOMAIN g.players :
        g.players[i].name = g.players[j].name => i = j

\* C24 witness: a room holds two players whose names differ in the case of
\* a letter only, and a join under a name of one of them has just been
\* refused.
C24_Witness ==
    /\ emitted.callback = "nameTaken"
    /\ games # {}
    /\ \E i, j \in DOMAIN Room.players :
          Room.players[i].name = "ann" /\ Room.players[j].name = "Ann"

\* the room createRoom makes for connection s with the given data
createdRoom(g, s, playerName, initialTime, maxRounds) ==
    /\ g.players = <<newPlayer(s, playerName, initialTime)>>
    /\ g.status = "waiting"
    /\ g.currentRound = 1
    /\ g.maxRounds = maxRounds
    /\ ~countdownLive(g) /\ ~biddingLive(g)

\* C25: createRoom refuses every request whose initialTime is outside
\* [10, 600] or whose maxRounds is outside [1, 50], and a refused request
\* makes no room and changes nothing; an accepted request makes a room with
\* the creator as its only player, time = initialTime, tokens = 0, nothing
\* held, in round 1 and waiting, with no timer.
C25_CreateRoom ==
    [][\A s \in Sockets : \A playerName \in NameInputs(s) :
       \A initialTime \in EdgeInitialTimes : \A maxRounds \in EdgeMaxRounds :
          (~roomIdTaken /\ Create(s, playerName, initialTime, maxRounds)) =>
             IF /\ initialTime >= 10 /\ initialTime <= 600
                /\ maxRounds >= 1 /\ maxRounds <= 50
             THEN /\ games' # {}
                  /\ createdRoom(Room', s, playerName, initialTime, maxRounds)
                  /\ emitted'.callback = "ok"
                  /\ sockets' = [sockets EXCEPT ![s] = "room"]
                  /\ timeouts' = timeouts
             ELSE /\ games' = {} /\ games = {}
                  /\ sockets' = sockets
                  /\ timeouts' = timeouts
                  /\ roomIdTaken' = roomIdTaken
                  /\ emitted'.callback \in {"invalidTime", "invalidRounds"}
                  /\ emitted'.messages = {}]_vars

\* C25 witness: a room has just been created with the greatest budget and
\* the greatest number of rounds that are accepted.
C25_Witness ==
    /\ emitted.callback = "ok"
    /\ games # {}
    /\ Len(Room.players) = 1
    /\ Room.players[1].time = MaxInitialTime
    /\ Room.maxRounds = MaxMaxRounds
    /\ Room.currentRound = 1
    /\ "newRound" \in emitted.messages

\* C26: no step raises the time of a player of the room, nor that of a
\* contestant of the round it resolves.
C26_TimeNeverGrows ==
    [][/\ (games # {} /\ games' # {}) =>
            \A i \in DOMAIN Room.players :
                find(Room'.players, Room.players[i].id) # <<>>
                    => Player(Room', Room.players[i].id).time <= Room.players[i].time
       /\ \A k \in DOMAIN resolved' :
            resolved'[k].after.time <= resolved'[k].before.time]_vars

\* C26 witness: a round has just been resolved in a room of two players and
\* its winner has less time than the other player, who joined with the
\* budget the winner had then.
C26_Witness ==
    /\ resolved # <<>>
    /\ games # {}
    /\ Len(Room.players) = 2
    /\ \E i, j \in DOMAIN Room.players :
          /\ Room.players[i].id \in announced(emitted)
          /\ Room.players[i].time < Room.players[j].time

\* C27: while the phase is gameOver no countdown interval and no bidding
\* interval of the room is running.
C27_GameOverNoTimer ==
    \A g \in games : g.status = "gameOver" => liveIntervals(g) = {}

\* s, a holding player, leaves the room or disconnects in preCountdown and
\* at least 2 non-eliminated players stay
holderDeparts(s) ==
    /\ Status = "preCountdown"
    /\ sockets[s] = "room"
    /\ find(Room.players, s) # <<>>
    /\ Player(Room, s).isHoldingButton
    /\ LeaveRoom(s) \/ Disconnect(s)
    /\ games' # {}
    /\ Len(alivePlayers(Room'.players)) >= 2

\* the countdown was cancelled and, if every non-eliminated player that
\* stays is holding, a new one has started from 5; otherwise the room waits
\* and one more startNewRound is scheduled after InterruptDelay
interrupted ==
    IF allHolding(alivePlayers(Room'.players))
    THEN /\ countdownStarted(Room')
         /\ Room'.preRoundIntervalId = {IntervalPeriod}
         /\ timeouts' = timeouts
    ELSE /\ Room'.status = "waiting"
         /\ ~countdownLive(Room')
         /\ timeouts' = [timeouts EXCEPT ![InterruptDelay] = @ + 1]

\* C28: when a holding player leaves or disconnects in preCountdown and at
\* least 2 non-eliminated players stay, the countdown timer is cancelled; if
\* every non-eliminated player that stays is holding a new countdown starts
\* from 5, otherwise the phase becomes waiting and startNewRound is
\* scheduled after a short delay.
C28_HolderDeparts ==
    [][\A s \in Sockets : holderDeparts(s) => interrupted]_vars

\* s, a holding player, releases in inRound and the round goes on
releaseInRound(s) ==
    /\ Status = "inRound"
    /\ sockets[s] = "room"
    /\ find(Room.players, s) # <<>>
    /\ Player(Room, s).isHoldingButton
    /\ PlayerReleased(s)
    /\ games' # {}
    /\ Room'.status = "inRound"

\* C29: a player who releases in inRound is out of the round: the release
\* marks the player hasOptedOut, and as long as the round goes on the mark
\* stays, so a later hold of the player adds nothing to roundHoldDuration.
C29_ReleaseForfeits ==
    [][/\ \A s \in Sockets : releaseInRound(s) => Player(Room', s).hasOptedOut
       /\ (Status = "inRound" /\ games' # {} /\ Room'.status = "inRound") =>
            \A i \in DOMAIN Room.players :
                LET p == Room.players[i]
                IN (p.hasOptedOut /\ find(Room'.players, p.id) # <<>>)
                      => /\ Player(Room', p.id).hasOptedOut
                         /\ Player(Room', p.id).roundHoldDuration = p.roundHoldDuration]_vars

\* the countdown interval fires for the last time: the countdown ends
countdownEnds == games # {} /\ Room.preRoundCountdown <= 1 /\ PreRoundInterval

\* C30: when the countdown ends, every player who is neither eliminated nor
\* holding is marked hasOptedOut and is not eliminated, and
\* activePlayersInRound lists exactly the players who are holding, not opted
\* out and not eliminated at that moment, in the order of the player list.
C30_CountdownEndResolution ==
    [][countdownEnds =>
        /\ \A i \in DOMAIN Room.players :
              LET p == Room.players[i]
              IN (~p.isEliminated /\ ~p.isHoldingButton) =>
                    /\ Player(Room', p.id).hasOptedOut
                    /\ ~Player(Room', p.id).isEliminated
        /\ LET in == SelectSeq(Room.players,
                        LAMBDA p : p.isHoldingButton /\ ~p.hasOptedOut /\ ~p.isEliminated)
           IN [k \in DOMAIN Room'.activePlayersInRound |-> Room'.activePlayersInRound[k].id]
                = [k \in DOMAIN in |-> in[k].id]]_vars

\* a round has just started from a countdown that left out both a player
\* who was not holding at its end and a player who was holding but had
\* given the round up
C30_Witness ==
    /\ Status = "inRound"
    /\ Room.roundElapsedTime = 0
    /\ Room.activePlayersInRound # <<>>
    /\ \E i, j \in DOMAIN Room.players :
          /\ ~Room.players[i].isHoldingButton /\ Room.players[i].hasOptedOut
          /\ ~Room.players[i].isEliminated
          /\ Room.players[j].isHoldingButton /\ Room.players[j].hasOptedOut
          /\ \A k \in DOMAIN Room.activePlayersInRound :
                Room.activePlayersInRound[k].id \notin {Room.players[i].id, Room.players[j].id}

\* the countdown ends and no player is holding, not opted out and not eliminated
noContest ==
    /\ countdownEnds
    /\ \A i \in DOMAIN Room.players :
          ~(/\ Room.players[i].isHoldingButton /\ ~Room.players[i].hasOptedOut
            /\ ~Room.players[i].isEliminated)

\* the room between a countdown that nobody contested and the next
\* startNewRound
noContestWindow == Status = "preCountdown" /\ ~countdownLive(Room)

\* C31: when the countdown ends with no contestant, the step starts no
\* bidding timer, leaves the phase, the tokens and the time budgets as they
\* are, and schedules startNewRound in 2 seconds; from then until a deferred
\* startNewRound fires, that callback stays pending and no step makes the
\* phase inRound.
C31_NoContest ==
    [][/\ noContest =>
            /\ Room'.roundTimerIntervalId = Room.roundTimerIntervalId
            /\ Room'.leakedRoundTimers = Room.leakedRoundTimers
            /\ Room'.status = Room.status /\ Room'.status # "inRound"
            /\ budgetsKept
            /\ timeouts' = [timeouts EXCEPT ![NoContestDelay] = @ + 1]
       /\ noContestWindow =>
            /\ Pending(timeouts) >= 1
            /\ Status' # "inRound"]_vars

C31_Witness ==
    /\ noContestWindow
    /\ "noContest" \in emitted.messages
    /\ timeouts[NoContestDelay] = 1
    /\ \E i \in DOMAIN Room.players : Room.players[i].isHoldingButton

\* the ids of the contestants, in the order of the list
contestants(g) == [k \in DOMAIN g.activePlayersInRound |-> g.activePlayersInRound[k].id]

\* C32: as long as the phase stays inRound the list of contestants is the
\* one the countdown end computed: no tick, hold, release, leave or
\* disconnect adds, drops or reorders a contestant.
C32_ContestantsFixed ==
    [][(Status = "inRound" /\ Status' = "inRound") =>
            contestants(Room') = contestants(Room)]_vars

\* a round that has ticked, which a contestant has left and in which
\* another contestant has let go since the countdown ended
C32_Witness ==
    /\ Status = "inRound"
    /\ Room.roundElapsedTime >= 1
    /\ \E k \in DOMAIN Room.activePlayersInRound :
          find(Room.players, Room.activePlayersInRound[k].id) = <<>>
    /\ \E k \in DOMAIN Room.activePlayersInRound :
          /\ find(Room.players, Room.activePlayersInRound[k].id) # <<>>
          /\ ~Player(Room, Room.activePlayersInRound[k].id).isHoldingButton

\* a bidding interval fires
biddingTick == RoundTimerInterval \/ LeakedRoundTimerInterval

\* the tick adds one second to roundElapsedTime and to the roundHoldDuration
\* of exactly the players who are holding, not opted out and not eliminated
accrual ==
    /\ Room'.roundElapsedTime = Room.roundElapsedTime + 1
    /\ idSeq(Room') = idSeq(Room)
    /\ \A i \in DOMAIN Room.players :
          LET p == Room.players[i]
              q == Room'.players[i]
          IN q.roundHoldDuration =
                IF p.isHoldingButton /\ ~p.hasOptedOut /\ ~p.isEliminated
                THEN p.roundHoldDuration + 1 ELSE p.roundHoldDuration

\* C33: a bidding tick adds 1 to roundElapsedTime and 1 to the
\* roundHoldDuration of exactly the players that are holding, not opted out
\* and not eliminated, leaves every other roundHoldDuration alone, and
\* changes no tokens and no time (the resolution of the round aside, when
\* the tick ends the round).
C33_Tick ==
    [][biddingTick => /\ accrual
                      /\ emitted'.roundWinner = <<>> => budgetsKept]_vars

\* the step arms a countdown: the phase becomes preCountdown
arming == games' # {} /\ Status # "preCountdown" /\ Room'.status = "preCountdown"

\* the countdown-end resolution has run in the step
resolutionRan == emitted'.messages \cap {"noContest", "roundStarting"} # {}

\* C34: the step that arms a countdown sets preRoundCountdown to 5 and resets
\* hasOptedOut and roundHoldDuration of every player; each countdown tick
\* lowers preRoundCountdown by exactly 1; the countdown-end resolution runs
\* exactly in the tick that brings it to 0, and that tick cancels the
\* countdown timer; preRoundCountdown is always within 0..5.
C34_Countdown ==
    [][/\ arming =>
            /\ Room'.preRoundCountdown = CountdownSeconds
            /\ \A i \in DOMAIN Room'.players :
                  /\ ~Room'.players[i].hasOptedOut
                  /\ Room'.players[i].roundHoldDuration = 0
       /\ (games # {} /\ PreRoundInterval) =>
            /\ Room'.preRoundCountdown = Room.preRoundCountdown - 1
            /\ resolutionRan <=> Room'.preRoundCountdown = 0
            /\ resolutionRan => ~countdownLive(Room')
       /\ games' # {} => Room'.preRoundCountdown \in 0..CountdownSeconds]_vars

\* C35: while the phase is roundEnded a deferred startNewRound is pending; a
\* deferred startNewRound that fires leaves the room, if there is one, in
\* waiting or gameOver; so, with deferred callbacks firing when they are due,
\* a room whose phase is roundEnded gets to waiting or gameOver, or is
\* removed.
C35_RoundEndedTransient ==
    /\ [](Status = "roundEnded" => Pending(timeouts) >= 1)
    /\ [][StartNewRoundTimeout => Status' \in {"waiting", "gameOver", "none"}]_vars
    /\ (Status = "roundEnded") ~> (Status \in {"waiting", "gameOver", "none"})

\* a round has just been resolved and its startNewRound is pending
C35_Witness ==
    /\ Status = "roundEnded"
    /\ emitted.roundWinner # <<>>
    /\ timeouts[RoundEndDelay] = 1

\* C36: the inRound phase ends, and it ends in roundEnded, in gameOver or
\* with the removal of the room: no step takes the phase from inRound to
\* anything else.
C36_RoundEnds ==
    [][Status = "inRound" => Status' \in {"inRound", "roundEnded", "gameOver", "none"}]_vars

\* C37: the winners of a round that the step has resolved (a round somebody
\* held in, so that tokens are awarded) are players of the room at that
\* moment.
C37_WinnerIsMember ==
    \A k \in DOMAIN emitted.roundWinner :
        emitted.roundWinner[k].duration > 0 =>
            /\ games # {}
            /\ emitted.roundWinner[k].winners \subseteq Ids(Room.players)

\* C38: at most one deferred startNewRound is pending at any time.
C38_OnePendingCallback == Pending(timeouts) <= 1

\* C39: every player of a room has time >= 1: a round resolution leaves
\* every contestant of the round, the winners it has charged among them,
\* with time >= 1, and no countdown end finds a player with time <= 0 to
\* eliminate.
C39_BudgetPositive ==
    /\ \A g \in games : \A i \in DOMAIN g.players : g.players[i].time >= 1
    /\ \A k \in DOMAIN resolved : resolved[k].after.time >= 1
    /\ "outOfTime" \notin emitted.messages

\* C40: in every room, 1 <= currentRound <= maxRounds: startNewRound never
\* takes currentRound beyond maxRounds, however many of its deferred calls
\* run.
C40_RoundInRange ==
    \A g \in games :
        /\ g.currentRound >= 1
        /\ halves(g.currentRound, FALSE) <= maxRoundsOf(g)

====
